---- MODULE Spec2Model ----
(***************************************************************************)
(* TravelMate: the subscription lifecycle and the services around it.      *)
(*   - registerUser, loginUser, updateUserProfile, changePassword          *)
(*                                     (services/authService.ts)           *)
(*   - the Stripe service              (services/stripeService.ts,         *)
(*                                      src/unnamed/part_001)              *)
(*   - the payment routes              (routes/payment.ts, the second half *)
(*                                      of src/unnamed/part_005)           *)
(*   - the auth routes                 (routes/auth.ts, the first half of  *)
(*                                      src/unnamed/part_005)              *)
(*   - authMiddleware, requireSubscription, rateLimitByTier                *)
(*                                     (middleware/auth.ts)                *)
(*   - the weather cache               (services/weatherService.ts)        *)
(*   - the frontend's AuthProvider     (frontend/src/context/              *)
(*                                      AuthContext.tsx)                   *)
(* Every request is a process whose position (pc) advances at the awaits   *)
(* of its handler, so that requests interleave where the event loop lets   *)
(* them.                                                                   *)
(***************************************************************************)
EXTENDS Integers, Sequences, FiniteSets, TLC

(***************************************************************************)
(* Bounds of the model.                                                    *)
(***************************************************************************)
\* event timestamps (event.created) and subscription period ends are 1..MaxTime
MaxTime == 2
\* rows of the payment table
MaxPayments == 2
\* customers the provider creates
MaxCustomers == 3
\* rows of the user table in the lifecycle specification
MaxUsers == 1

(***************************************************************************)
(* Value domains.                                                          *)
(***************************************************************************)
\* null / undefined of a string-valued field
Null == "null"
\* null of subscriptionEndDate (a Date is modelled by its time, >= 1)
NoDate == 0
\* null of stripeCustomerId (the provider's customer cus_i is modelled by i >= 1)
NoCustomer == 0

UserIds == {"u1", "u2"}
Emails == {"a@x.io", "b@x.io"}
Tiers == {"FREE", "PRO", "ENTERPRISE"}
PaidTiers == {"PRO", "ENTERPRISE"}
BillingPeriods == {"monthly", "annual"}
\* Stripe.Subscription.status values the provider sends
SubStatuses == {"active", "trialing", "past_due", "canceled"}
Times == 1..MaxTime
SessionIds == {"cs_1"}
\* the calling processes of each kind of request
RegProcs == {"r1", "r2"}
CheckoutProcs == {"c1", "c2"}

\* a row of the user table that does not exist
NoUser == [email |-> Null, tier |-> Null, status |-> Null, endDate |-> NoDate,
           stripeCustomerId |-> NoCustomer]

\* the subscription snapshot of a user row
Snapshot(row) == [tier |-> row.tier, status |-> row.status, endDate |-> row.endDate]
NoSnapshot == Snapshot(NoUser)

(***************************************************************************)
(* Webhook events, as the provider sends them.  The fields are those the   *)
(* handlers read: event.type, and of event.data.object the metadata, the   *)
(* session id, the subscription's status and current_period_end.           *)
(* event.created is carried although no handler reads it; it varies for    *)
(* customer.subscription.updated, whose order of delivery matters.         *)
(***************************************************************************)
CheckoutEvents ==
    [type : {"checkout.session.completed"}, created : {1},
     userId : UserIds \cup {Null}, tier : PaidTiers \cup {Null},
     billingPeriod : {"monthly", Null}, session : SessionIds,
     status : {Null}, periodEnd : Times]
SubscriptionEvents ==
    [type : {"customer.subscription.updated"}, created : Times,
     userId : UserIds \cup {Null}, tier : {Null},
     billingPeriod : {Null}, session : {Null},
     status : SubStatuses, periodEnd : Times]
    \cup
    [type : {"customer.subscription.deleted"}, created : {1},
     userId : UserIds \cup {Null}, tier : {Null},
     billingPeriod : {Null}, session : {Null},
     status : {"canceled"}, periodEnd : {1}]
OtherEvents ==
    [type : {"invoice.payment_failed", "invoice.payment_succeeded", "charge.refunded"},
     created : {1}, userId : UserIds \cup {Null}, tier : {Null},
     billingPeriod : {Null}, session : {Null},
     status : {Null}, periodEnd : {1}]
Events == CheckoutEvents \cup SubscriptionEvents \cup OtherEvents
\* one payload of each event type, for the requests the route refuses before
\* it reads the payload
PayloadSamples ==
    {e \in Events : /\ e.userId \in {"u1", Null} /\ e.periodEnd = 1 /\ e.created = 1
                    /\ e.tier \in {"PRO", Null} /\ e.billingPeriod = Null
                    /\ e.status \in {"active", "canceled", Null}}
NoEvent == [type |-> Null, created |-> 0, userId |-> Null, tier |-> Null,
            billingPeriod |-> Null, session |-> Null, status |-> Null, periodEnd |-> 0]

\* the stripe-signature header of a request
Signatures == {"missing", "invalid", "valid"}

(***************************************************************************)
(* State.                                                                  *)
(***************************************************************************)
VARIABLES
    users,      \* the user table: UserIds -> row, NoUser where there is none
    payments,   \* the payment table, in creation order
    customers,  \* the provider's customers: customers[i] is the userId of cus_i
    reg,        \* the POST /register requests
    wh,         \* the POST /webhook request
    co,         \* the POST /create-checkout-session requests
    gate,       \* the answer of requireSubscription, when it was the last step
    applied,    \* per user, event.created of the customer.subscription.updated
                \* event that wrote the row last (0: the last write was another)
    portal,     \* the POST /create-customer-portal-session request
    st,         \* the GET /subscription-status request
    creds,      \* the user table's columns name and passwordHash, per user
    acct,       \* the request to /login, /profile or /change-password
    clock,      \* Date.now() of the server, and the times it has been advanced
    rateLimitStore, \* the rate limiter's records, per key
    rl,         \* the last answer of rateLimitByTier and, per key, the requests
                \* that reached the handler in the key's present window
    weatherCache,   \* the weather service's cache, per cache key
    weather,    \* the last call of the weather service and what it returned
    auth,       \* the request inside authMiddleware
    fe,         \* the AuthProvider's state and the browser's localStorage
    calls       \* the API calls of the AuthProvider that have not completed

\* the middleware, the weather service and the frontend
services == <<clock, rateLimitStore, rl, weatherCache, weather, auth, fe, calls>>

\* the state beside the subscription lifecycle that registration leaves alone
auxRequests == <<st, acct>>

\* the state of the requests and stores beside the subscription lifecycle
aux == <<auxRequests, creds, services>>

vars == <<users, payments, customers, reg, wh, co, gate, applied, portal, aux>>

\* the state of the subscription lifecycle
lifecycle == <<users, payments, customers, reg, wh, co, gate, applied, portal>>

Exists(u) == u \in UserIds /\ users[u] # NoUser

NoGate == [user |-> Null, allowed |-> {}, http |-> 0, error |-> Null, next |-> FALSE]

RegIdle == [pc |-> "idle", email |-> Null, http |-> 0, id |-> Null]
NoSession == [customer |-> NoCustomer, userId |-> Null, tier |-> Null,
              billingPeriod |-> Null, price |-> Null]
CoIdle == [pc |-> "idle", userId |-> Null, tier |-> Null, billingPeriod |-> Null,
           startNull |-> FALSE, customerId |-> NoCustomer, http |-> 0,
           error |-> Null, session |-> NoSession]
\* calls: the stripe.billingPortal.sessions.create calls the request has made
PortalIdle == [pc |-> "idle", userId |-> Null, http |-> 0, error |-> Null,
               customer |-> NoCustomer, calls |-> 0]
\* the columns name and passwordHash of a row that does not exist
NoCreds == [name |-> Null, passwordHash |-> Null]
Passwords == {"password1", "password2", "short"}
Names == {"Ann"}
AcctIdle == [pc |-> "idle", op |-> Null, userId |-> Null, data |-> <<>>,
             password |-> Null, newPassword |-> Null, hash |-> Null,
             http |-> 0, error |-> Null]
StIdle == [pc |-> "idle", userId |-> Null, http |-> 0, error |-> Null,
           tier |-> Null, status |-> Null, endDate |-> NoDate, isActive |-> FALSE,
           list |-> "none"]
WhIdle == [pc |-> "idle", sig |-> Null, ev |-> NoEvent, http |-> 0, error |-> Null,
           attempt |-> 0, firstHttp |-> 0, writes |-> 0, paid |-> 0,
           pre |-> NoSnapshot]


\* bcrypt.hash and bcrypt.compare
hashPassword(password) == "$2a$10$" \o password
verifyPassword(password, hash) == hash = hashPassword(password)

\* the columns name and passwordHash prisma.user.create writes (the
\* registration's password is password1, its name is left out)
NewCreds == [name |-> Null, passwordHash |-> hashPassword("password1")]

(***************************************************************************)
(* rateLimitByTier (middleware/auth.ts).                                   *)
(***************************************************************************)
\* times the model advances the clock
MaxTicks == 2
\* requests beyond the limit the model sends in one window
MaxOver == 1

\* const windowMs = 60 * 60 * 1000
windowMs == 60 * 60 * 1000

\* the limits of the deployment (its documentation: hourly limit per tier)
limits == [FREE |-> 10, PRO |-> 100, ENTERPRISE |-> 1000]

\* the x-forwarded-for header of a request: absent, empty or an address
ForwardedFor == {Null, ""}

\* `user:${user.id}` or `ip:${c.req.header('x-forwarded-for') || 'unknown'}`
rateLimitKey(user, forwarded) ==
    IF user # Null THEN "user:" \o user
    ELSE "ip:" \o (IF forwarded \in {Null, ""} THEN "unknown" ELSE forwarded)

RateKeys == {rateLimitKey("u1", Null)} \cup {rateLimitKey(Null, f) : f \in ForwardedFor}

\* rateLimitStore.get(key) of a key the store does not hold
NoRecord == [count |-> 0, resetAt |-> 0]

\* !record || now > record.resetAt
windowPassed(record, t) == record = NoRecord \/ t > record.resetAt

\* faulty variant: one request more than the limit gets through
exceededLate(count, limit) == count > limit + 1

\* record.count > limit
exceeded(count, limit) == count > limit

\* http: 0 before the first request, 429, or 200 when next() was called;
\* opened[k]: the time of the request that opened k's present window (0: none);
\* passed[k]: the calls of next() for k since then
RlIdle == [key |-> Null, http |-> 0, opened |-> [k \in RateKeys |-> 0],
           passed |-> [k \in RateKeys |-> 0]]

\* the steps by which the model advances the clock: 1 ms, and 1 ms less
\* than an hour
TickSteps == {1, windowMs - 1}

(***************************************************************************)
(* The weather service's cache (services/weatherService.ts).               *)
(***************************************************************************)
\* const CACHE_TTL = 60 * 60 * 1000
CACHE_TTL == 60 * 60 * 1000

Cities == {"Paris", "paris", "Oslo"}

\* city.toLowerCase()
toLowerCase(city) ==
    CASE city = "Paris" -> "paris"
      [] city = "Oslo" -> "oslo"
      [] OTHER -> city

\* `current_${city.toLowerCase()}` and `forecast_${city.toLowerCase()}`
currentKey(city) == "current_" \o toLowerCase(city)
forecastKey(city) == "forecast_" \o toLowerCase(city)
CacheKeys == {currentKey(c) : c \in Cities} \cup {forecastKey(c) : c \in Cities}

\* city.split('').reduce((acc, char) => acc + char.charCodeAt(0), 0)
seed(city) ==
    CASE city = "Paris" -> 80 + 97 + 114 + 105 + 115
      [] city = "Oslo" -> 79 + 115 + 108 + 111
      [] OTHER -> 112 + 97 + 114 + 105 + 115

\* generateMockWeather(city): temperature, humidity and pressure
generateMockWeather(city) ==
    [temperature |-> 5 + (seed(city) % 30), humidity |-> 40 + (seed(city) % 50),
     pressure |-> 1000 + (seed(city) % 30)]

\* generateMockForecast(city): its base temperature
generateMockForecast(city) == 10 + (seed(city) % 20)

\* a WeatherData has no forecast
NoForecast == 0
NoData == [city |-> Null, current |-> <<>>, forecast |-> NoForecast, lastUpdated |-> 0]
\* weatherCache.get(key) of a key the cache does not hold
NoEntry == [data |-> NoData, timestamp |-> 0]
NoCache == [k \in CacheKeys |-> NoEntry]
NoWeather == [op |-> Null, city |-> Null, result |-> NoData]

\* faulty variant: an entry exactly CACHE_TTL old is still served
cacheFreshInclusive(cached, t) == cached # NoEntry /\ t - cached.timestamp <= CACHE_TTL

\* cached && Date.now() - cached.timestamp < CACHE_TTL
cacheFresh(cached, t) == cached # NoEntry /\ t - cached.timestamp < CACHE_TTL

\* the WeatherData and the ForecastData the service builds at time t
weatherData(city, t) ==
    [city |-> city, current |-> generateMockWeather(city), forecast |-> NoForecast,
     lastUpdated |-> t]
forecastData(city, t) ==
    [city |-> city, current |-> generateMockWeather(city),
     forecast |-> generateMockForecast(city), lastUpdated |-> t]

getCurrentWeather(city) ==
    /\ LET cacheKey == currentKey(city)
           cached == weatherCache[cacheKey]
           data == weatherData(city, clock.now)
       IN  IF cacheFresh(cached, clock.now)
           THEN /\ weather' = [op |-> "current", city |-> city, result |-> cached.data]
                /\ weatherCache' = weatherCache
           ELSE /\ weather' = [op |-> "current", city |-> city, result |-> data]
                /\ weatherCache' = [weatherCache EXCEPT ![cacheKey] =
                                      [data |-> data, timestamp |-> clock.now]]
    /\ UNCHANGED <<lifecycle, auxRequests, creds, clock, rateLimitStore, rl, auth,
                   fe, calls>>

getWeatherForecast(city) ==
    /\ LET cacheKey == forecastKey(city)
           cached == weatherCache[cacheKey]
           data == forecastData(city, clock.now)
       IN  IF cacheFresh(cached, clock.now)
           THEN /\ weather' = [op |-> "forecast", city |-> city, result |-> cached.data]
                /\ weatherCache' = weatherCache
           ELSE /\ weather' = [op |-> "forecast", city |-> city, result |-> data]
                /\ weatherCache' = [weatherCache EXCEPT ![cacheKey] =
                                      [data |-> data, timestamp |-> clock.now]]
    /\ UNCHANGED <<lifecycle, auxRequests, creds, clock, rateLimitStore, rl, auth,
                   fe, calls>>

clearWeatherCache ==
    /\ weatherCache' = NoCache
    /\ weather' = [op |-> "clear", city |-> Null, result |-> NoData]
    /\ UNCHANGED <<lifecycle, auxRequests, creds, clock, rateLimitStore, rl, auth,
                   fe, calls>>

(***************************************************************************)
(* authMiddleware (middleware/auth.ts).                                    *)
(***************************************************************************)
\* An Authorization header is modelled by its words, authHeader.split(' ');
\* no header at all by no words.
NoHeader == <<>>

\* the tokens of the requests and what jwt.verify finds in them: the userId
\* of the payload, whether the signature is the server's, and the expiry
Tokens == {"tU1", "tU2", "tOld", "tForged"}
jwtDecode(token) ==
    CASE token = "tU1" -> [userId |-> "u1", signed |-> TRUE, exp |-> 3 * windowMs]
      [] token = "tU2" -> [userId |-> "u2", signed |-> TRUE, exp |-> 3 * windowMs]
      [] token = "tOld" -> [userId |-> "u1", signed |-> TRUE, exp |-> windowMs]
      [] OTHER -> [userId |-> "u1", signed |-> FALSE, exp |-> 3 * windowMs]

Headers ==
    {NoHeader, <<"">>, <<"Bearer">>} \cup {<<"Bearer", t>> : t \in Tokens}
      \cup {<<"Basic", "tU1">>, <<"bearer", "tU1">>, <<"Bearer", "", "tU1">>,
            <<"Bearer", "tU1", "">>}

\* faulty variant: words after the token are let through
bearerFormLoose(parts) == Len(parts) >= 2 /\ parts[1] = "Bearer"

\* !(parts.length !== 2 || parts[0] !== 'Bearer')
bearerForm(parts) == Len(parts) = 2 /\ parts[1] = "Bearer"

\* verifyToken(token) does not throw at time t
verifyToken(token, t) ==
    token \in Tokens /\ jwtDecode(token).signed /\ t < jwtDecode(token).exp

AuthIdle == [pc |-> "idle", header |-> NoHeader, userId |-> Null, http |-> 0,
             message |-> Null, user |-> Null, next |-> FALSE]

\* the middleware up to its await
AuthStart(authHeader) ==
    /\ auth.pc \in {"idle", "done"}
    /\ LET answer(message) == [AuthIdle EXCEPT !.pc = "done", !.header = authHeader,
                                               !.http = 401, !.message = message]
       IN  auth' =
             IF authHeader = NoHeader \/ authHeader = <<"">>
             THEN answer("No authorization header provided")
             ELSE IF ~bearerForm(authHeader)
             THEN answer("Invalid authorization header format. Use: Bearer <token>")
             ELSE IF ~verifyToken(authHeader[2], clock.now)
             THEN answer("Invalid or expired token")
             ELSE [AuthIdle EXCEPT !.pc = "getUser", !.header = authHeader,
                                   !.userId = jwtDecode(authHeader[2]).userId]
    /\ UNCHANGED <<lifecycle, auxRequests, creds, clock, rateLimitStore, rl,
                   weatherCache, weather, fe, calls>>

\* await getUserById(payload.userId), c.set('user', user), await next()
AuthGetUser(ok) ==
    /\ auth.pc = "getUser"
    /\ auth' =
         IF ~ok
         THEN [auth EXCEPT !.pc = "done", !.http = 500,
                           !.message = "Authentication failed"]
         ELSE IF ~Exists(auth.userId)
         THEN [auth EXCEPT !.pc = "done", !.http = 401, !.message = "User not found"]
         ELSE [auth EXCEPT !.pc = "done", !.http = 200, !.user = auth.userId,
                           !.next = TRUE]
    /\ UNCHANGED <<lifecycle, auxRequests, creds, clock, rateLimitStore, rl,
                   weatherCache, weather, fe, calls>>

(***************************************************************************)
(* The frontend's AuthProvider (frontend/src/context/AuthContext.tsx).     *)
(***************************************************************************)
\* the tokens the API answers a login or a registration with
ApiTokens == {"t1", "t2"}

\* useState(null), useState(null), useState(true), and the auth_token the
\* browser's localStorage holds when the provider mounts
FeInit(storedToken) ==
    [user |-> Null, token |-> Null, isLoading |-> TRUE, storage |-> storedToken]

\* the mount effect has not run, no call is pending
NoCalls == [load |-> "mount", login |-> "idle", register |-> "idle",
            refresh |-> "idle"]

\* what the frontend leaves alone
backend == <<lifecycle, auxRequests, creds, clock, rateLimitStore, rl, weatherCache,
             weather, auth>>

\* the mount effect: loadUser up to its await
LoadUser ==
    /\ calls.load = "mount"
    /\ IF fe.storage # Null
       THEN /\ fe' = [fe EXCEPT !.token = fe.storage]
            /\ calls' = [calls EXCEPT !.load = "me"]
       ELSE /\ fe' = [fe EXCEPT !.isLoading = FALSE]
            /\ calls' = [calls EXCEPT !.load = "done"]
    /\ UNCHANGED backend

\* api.auth.me() of loadUser completes
LoadUserDone(ok, user) ==
    /\ calls.load = "me"
    /\ fe' = IF ok THEN [fe EXCEPT !.user = user, !.isLoading = FALSE]
             ELSE [fe EXCEPT !.storage = Null, !.token = Null, !.isLoading = FALSE]
    /\ calls' = [calls EXCEPT !.load = "done"]
    /\ UNCHANGED backend

\* login(email, password) up to its await
FeLogin ==
    /\ calls.load # "mount"
    /\ calls.login = "idle"
    /\ calls' = [calls EXCEPT !.login = "wait"]
    /\ UNCHANGED <<backend, fe>>

\* api.auth.login completes
FeLoginDone(ok, authToken, authUser) ==
    /\ calls.login = "wait"
    /\ fe' = IF ok THEN [fe EXCEPT !.storage = authToken, !.token = authToken,
                                   !.user = authUser]
             ELSE fe
    /\ calls' = [calls EXCEPT !.login = "idle"]
    /\ UNCHANGED backend

\* register(email, password, name) up to its await
FeRegister ==
    /\ calls.load # "mount"
    /\ calls.register = "idle"
    /\ calls' = [calls EXCEPT !.register = "wait"]
    /\ UNCHANGED <<backend, fe>>

\* api.auth.register completes
FeRegisterDone(ok, authToken, authUser) ==
    /\ calls.register = "wait"
    /\ fe' = IF ok THEN [fe EXCEPT !.storage = authToken, !.token = authToken,
                                   !.user = authUser]
             ELSE fe
    /\ calls' = [calls EXCEPT !.register = "idle"]
    /\ UNCHANGED backend

\* what logout() leaves of the provider's state
loggedOut(state) == [state EXCEPT !.storage = Null, !.token = Null, !.user = Null]

\* logout(); the call of the logout endpoint is not awaited, its result ignored
FeLogout ==
    /\ calls.load # "mount"
    /\ fe' = loggedOut(fe)
    /\ UNCHANGED <<backend, calls>>

\* refreshUser() up to its await; nothing happens without a token
FeRefreshUser ==
    /\ calls.load # "mount"
    /\ calls.refresh = "idle"
    /\ fe.token # Null
    /\ calls' = [calls EXCEPT !.refresh = "wait"]
    /\ UNCHANGED <<backend, fe>>

\* api.auth.me() of refreshUser completes
FeRefreshUserDone(ok, user) ==
    /\ calls.refresh = "wait"
    /\ fe' = IF ok THEN [fe EXCEPT !.user = user] ELSE loggedOut(fe)
    /\ calls' = [calls EXCEPT !.refresh = "idle"]
    /\ UNCHANGED backend

\* the clock starts at 1 ms
InitServices ==
    /\ clock = [now |-> 1, ticks |-> 0]
    /\ rateLimitStore = [k \in RateKeys |-> NoRecord]
    /\ rl = RlIdle
    /\ weatherCache = NoCache
    /\ weather = NoWeather
    /\ auth = AuthIdle
    /\ calls = NoCalls

\* time passes: d ms
Tick(d) ==
    /\ clock.ticks < MaxTicks
    /\ clock' = [now |-> clock.now + d, ticks |-> clock.ticks + 1]
    /\ UNCHANGED <<lifecycle, auxRequests, creds, rateLimitStore, rl, weatherCache,
                   weather, auth, fe, calls>>

\* (user?.subscriptionTier as keyof RateLimitConfig) || 'FREE'
rateLimitTier(user) == IF user = Null THEN "FREE" ELSE users[user].tier

\* one request through rateLimitByTier(limits); user is c.get('user')
RateLimit(user, forwarded) ==
    /\ user # Null => Exists(user)
    /\ LET limit == limits[rateLimitTier(user)]
           key == rateLimitKey(user, forwarded)
           now == clock.now
           old == rateLimitStore[key]
           fresh == IF windowPassed(old, now)
                    THEN [count |-> 0, resetAt |-> now + windowMs] ELSE old
           record == [fresh EXCEPT !.count = @ + 1]
           over == exceeded(record.count, limit)
           renewed == rl.opened[key] = 0 \/ now > rl.opened[key] + windowMs
           before == IF renewed THEN 0 ELSE rl.passed[key]
       IN  /\ record.count <= limit + MaxOver
           /\ rateLimitStore' = [rateLimitStore EXCEPT ![key] = record]
           /\ rl' = [key |-> key, http |-> IF over THEN 429 ELSE 200,
                     opened |-> [rl.opened EXCEPT ![key] = IF renewed THEN now ELSE @],
                     passed |-> [rl.passed EXCEPT ![key] =
                                   IF over THEN before ELSE before + 1]]
    /\ UNCHANGED <<lifecycle, auxRequests, creds, clock, weatherCache, weather,
                   auth, fe, calls>>

\* no request beside the subscription lifecycle has been made; the users
\* there are have the credentials of their registration
InitRequests ==
    /\ st = StIdle
    /\ creds = [u \in UserIds |-> IF users[u] = NoUser THEN NoCreds ELSE NewCreds]
    /\ acct = AcctIdle

\* no request beside the subscription lifecycle has been made, the services
\* hold nothing, and the browser has no token stored
InitAux ==
    /\ InitRequests
    /\ InitServices
    /\ fe = FeInit(Null)

(***************************************************************************)
(* POST /api/auth/register: registerUser.                                  *)
(***************************************************************************)
\* the row prisma.user.create writes: subscriptionTier FREE, every optional
\* column left to its default, null
NewUserRow(email) ==
    [email |-> email, tier |-> "FREE", status |-> Null, endDate |-> NoDate,
     stripeCustomerId |-> NoCustomer]

\* the id the database gives the next row
FreshId == CHOOSE u \in UserIds : ~Exists(u)

EmailTaken(email) == \E u \in UserIds : Exists(u) /\ users[u].email = email

\* the request arrives; the input is validated and the email looked up
\* (await prisma.user.findUnique({ where: { email } }))
RegisterFind(p, email, valid) ==
    /\ reg[p].pc \in {"idle", "done"}
    /\ reg' = [reg EXCEPT ![p] =
                IF ~valid
                THEN [pc |-> "done", email |-> email, http |-> 400, id |-> Null]
                ELSE IF EmailTaken(email)
                THEN [pc |-> "done", email |-> email, http |-> 409, id |-> Null]
                ELSE [pc |-> "create", email |-> email, http |-> 0, id |-> Null]]
    /\ UNCHANGED <<portal, gate, users, payments, customers, wh, co, applied, aux>>

\* await prisma.user.create: the unique index on email rejects a duplicate
\* with an error whose message the route maps to 400
RegisterCreate(p) ==
    /\ reg[p].pc = "create"
    /\ IF EmailTaken(reg[p].email)
       THEN /\ reg' = [reg EXCEPT ![p].pc = "done", ![p].http = 400]
            /\ users' = users
            /\ creds' = creds
       ELSE LET u == FreshId
            IN  /\ users' = [users EXCEPT ![u] = NewUserRow(reg[p].email)]
                /\ creds' = [creds EXCEPT ![u] = NewCreds]
                /\ reg' = [reg EXCEPT ![p].pc = "done", ![p].http = 201, ![p].id = u]
    /\ UNCHANGED <<portal, gate, payments, customers, wh, co, applied, auxRequests, services>>


(***************************************************************************)
(* POST /api/payment/webhook and the event handlers of the Stripe service. *)
(***************************************************************************)
\* faulty variant: every signature is accepted
verifyWebhookSignatureAny(sig) == TRUE

\* stripe.webhooks.constructEvent returns the event for a signature that
\* matches the payload and the secret, and throws otherwise
verifyWebhookSignature(sig) == sig = "valid"

\* faulty variant: only the userId is required
MetadataCompleteUserOnly(e) == e.userId # Null

\* handleCheckoutSessionCompleted: if (!userId || !tier || !billingPeriod) throw
MetadataComplete(e) == e.userId # Null /\ e.tier # Null /\ e.billingPeriod # Null

\* faulty variant: the end date is not written
CheckoutCompletedDataNoEnd(row, e) ==
    [row EXCEPT !.tier = e.tier, !.status = "active"]

\* faulty variant: the status is not written
CheckoutCompletedDataNoStatus(row, e) ==
    [row EXCEPT !.tier = e.tier, !.endDate = e.periodEnd]

\* the data of prisma.user.update in handleCheckoutSessionCompleted
CheckoutCompletedData(row, e) ==
    [row EXCEPT !.tier = e.tier, !.status = "active", !.endDate = e.periodEnd]

\* faulty variant: the status is not written
SubscriptionUpdatedDataNoStatus(row, e) ==
    [row EXCEPT !.endDate = e.periodEnd]

\* the data of prisma.user.update in handleSubscriptionUpdated
SubscriptionUpdatedData(row, e) ==
    [row EXCEPT !.status = e.status, !.endDate = e.periodEnd]

\* the data of prisma.user.update in handleSubscriptionDeleted
SubscriptionDeletedData(row, e) ==
    [row EXCEPT !.tier = "FREE", !.status = "canceled", !.endDate = NoDate]

\* the row of prisma.payment.create in handleCheckoutSessionCompleted
PaymentRow(e) ==
    [userId |-> e.userId, tier |-> e.tier, billingPeriod |-> e.billingPeriod,
     status |-> "succeeded", session |-> e.session]

\* faulty variant: a failed invoice payment is handled as a subscription update
switchCaseInvoiceLapses(type) ==
    CASE type = "checkout.session.completed" -> "handleCheckoutSessionCompleted"
      [] type = "customer.subscription.updated" -> "handleSubscriptionUpdated"
      [] type = "customer.subscription.deleted" -> "handleSubscriptionDeleted"
      [] type = "invoice.payment_failed" -> "handleSubscriptionUpdated"
      [] OTHER -> Null

\* switch (event.type): the handler the route awaits; the invoice.* cases and
\* the default case only log
switchCase(type) ==
    CASE type = "checkout.session.completed" -> "handleCheckoutSessionCompleted"
      [] type = "customer.subscription.updated" -> "handleSubscriptionUpdated"
      [] type = "customer.subscription.deleted" -> "handleSubscriptionDeleted"
      [] OTHER -> Null

\* The route from the arrival of the request to the first await of a handler
\* that reaches the database or the provider.  A request whose signature is
\* not verified is answered before its payload is parsed.
\* Bookkeeping of the delivery, read by no handler: attempt (which delivery
\* of the event this is), firstHttp (the answer to the previous delivery),
\* writes and paid (the user rows it has updated, the payment rows it has
\* created) and pre (the snapshot its update replaced).
WebhookEntry(e, sig, secretSet, attempt, firstHttp) ==
    LET base == [WhIdle EXCEPT !.sig = sig, !.ev = e, !.attempt = attempt,
                               !.firstHttp = firstHttp]
        answer(h, err) == [base EXCEPT !.pc = "done", !.http = h, !.error = err]
        refuse(h, err) == [answer(h, err) EXCEPT !.ev = NoEvent]
    IN  IF sig = "missing" THEN refuse(400, "Missing stripe-signature header")
        ELSE IF ~secretSet THEN refuse(500, "Webhook secret not configured")
        ELSE IF ~verifyWebhookSignature(sig) THEN refuse(400, "Invalid signature")
        ELSE CASE switchCase(e.type) = "handleCheckoutSessionCompleted" ->
                    IF ~MetadataComplete(e)
                    THEN answer(500, "Missing required metadata in checkout session")
                    ELSE [base EXCEPT !.pc = "retrieve"]
               [] switchCase(e.type) \in {"handleSubscriptionUpdated",
                                          "handleSubscriptionDeleted"} ->
                    IF e.userId = Null
                    THEN answer(200, Null)
                    ELSE [base EXCEPT !.pc = "update"]
               [] OTHER -> answer(200, Null)

\* a request arrives at POST /webhook
WebhookReceive(e, sig, secretSet) ==
    /\ wh.pc \in {"idle", "done"}
    /\ e.type = "checkout.session.completed" => Len(payments) < MaxPayments
    /\ wh' = WebhookEntry(e, sig, secretSet, 1, 0)
    /\ UNCHANGED <<portal, gate, users, payments, customers, reg, co, applied, aux>>

\* the provider delivers the event of the answered request once more
\* (same event id, same payload, same signature)
WebhookRedeliver(secretSet) ==
    /\ wh.pc = "done"
    /\ wh.attempt = 1
    /\ wh.sig = "valid"
    /\ wh.ev # NoEvent
    /\ wh.ev.type = "checkout.session.completed" => Len(payments) < MaxPayments
    /\ wh' = WebhookEntry(wh.ev, wh.sig, secretSet, 2, wh.http)
    /\ UNCHANGED <<portal, gate, users, payments, customers, reg, co, applied, aux>>

\* handleCheckoutSessionCompleted: await stripe.subscriptions.retrieve
WebhookRetrieve(ok) ==
    /\ wh.pc = "retrieve"
    /\ wh' = IF ok
             THEN [wh EXCEPT !.pc = "update"]
             ELSE [wh EXCEPT !.pc = "done", !.http = 500,
                             !.error = "No such subscription"]
    /\ UNCHANGED <<portal, gate, users, payments, customers, reg, co, applied, aux>>

\* await prisma.user.update({ where: { id: userId }, data }) of the three
\* handlers; it throws when no row has the id
WebhookUpdateUser(ok) ==
    /\ wh.pc = "update"
    /\ LET e == wh.ev
           u == e.userId
       IN  IF ~ok \/ ~Exists(u)
           THEN /\ wh' = [wh EXCEPT !.pc = "done", !.http = 500,
                                    !.error = "Record to update not found"]
                /\ UNCHANGED <<users, applied>>
           ELSE /\ users' = [users EXCEPT ![u] =
                     CASE switchCase(e.type) = "handleCheckoutSessionCompleted" ->
                            CheckoutCompletedData(users[u], e)
                       [] switchCase(e.type) = "handleSubscriptionUpdated" ->
                            SubscriptionUpdatedData(users[u], e)
                       [] OTHER -> SubscriptionDeletedData(users[u], e)]
                /\ applied' = [applied EXCEPT ![u] =
                                  IF switchCase(e.type) = "handleSubscriptionUpdated"
                                  THEN e.created ELSE 0]
                /\ wh' = [wh EXCEPT
                            !.pc = IF switchCase(e.type) = "handleCheckoutSessionCompleted"
                                   THEN "create" ELSE "done",
                            !.http = IF switchCase(e.type) = "handleCheckoutSessionCompleted"
                                     THEN 0 ELSE 200,
                            !.writes = @ + 1,
                            !.pre = Snapshot(users[u])]
    /\ UNCHANGED <<portal, gate, payments, customers, reg, co, aux>>

\* handleCheckoutSessionCompleted: await prisma.payment.create
WebhookCreatePayment(ok) ==
    /\ wh.pc = "create"
    /\ IF ok
       THEN /\ payments' = Append(payments, PaymentRow(wh.ev))
            /\ wh' = [wh EXCEPT !.pc = "done", !.http = 200, !.paid = @ + 1]
       ELSE /\ payments' = payments
            /\ wh' = [wh EXCEPT !.pc = "done", !.http = 500,
                                !.error = "payment.create failed"]
    /\ UNCHANGED <<portal, gate, users, customers, reg, co, applied, aux>>


(***************************************************************************)
(* requireSubscription(allowedTiers): the access gate.                     *)
(***************************************************************************)
\* faulty variant: the status of a paid tier is not looked at
requireSubscriptionTierOnly(user, allowedTiers) ==
    IF user = NoUser
    THEN [http |-> 401, error |-> "Unauthorized", next |-> FALSE]
    ELSE IF user.tier \notin allowedTiers
    THEN [http |-> 403, error |-> "insufficient_tier", next |-> FALSE]
    ELSE [http |-> 200, error |-> Null, next |-> TRUE]

\* the middleware's answer for the user of the request context (NoUser when
\* no authMiddleware ran before it): the status, the error and whether next()
\* is called
requireSubscription(user, allowedTiers) ==
    IF user = NoUser
    THEN [http |-> 401, error |-> "Unauthorized", next |-> FALSE]
    ELSE IF user.tier \notin allowedTiers
    THEN [http |-> 403, error |-> "insufficient_tier", next |-> FALSE]
    ELSE IF user.tier # "FREE" /\ user.status # "active" /\ user.status # "trialing"
    THEN [http |-> 403, error |-> "inactive_subscription", next |-> FALSE]
    ELSE [http |-> 200, error |-> Null, next |-> TRUE]

\* a request reaches requireSubscription(allowedTiers), either after
\* authMiddleware has loaded the row of user u into the context or on a route
\* without it
GateCheck(u, allowedTiers, authenticated) ==
    /\ Exists(u)
    /\ LET r == requireSubscription(IF authenticated THEN users[u] ELSE NoUser,
                                    allowedTiers)
       IN  gate' = [user |-> IF authenticated THEN u ELSE Null,
                    allowed |-> allowedTiers,
                    http |-> r.http, error |-> r.error, next |-> r.next]
    /\ UNCHANGED <<users, payments, customers, reg, wh, co, applied, portal, aux>>

(***************************************************************************)
(* POST /api/payment/create-checkout-session: createCheckoutSession and    *)
(* getOrCreateStripeCustomer.                                              *)
(***************************************************************************)
\* faulty variant: the schema admits every tier
createCheckoutSchemaAnyTier(tier, billingPeriod) ==
    tier \in {"FREE", "PRO", "ENTERPRISE"} /\ billingPeriod \in {"monthly", "annual"}

\* createCheckoutSchema: tier is PRO or ENTERPRISE, billingPeriod monthly or annual
createCheckoutSchema(tier, billingPeriod) ==
    tier \in {"PRO", "ENTERPRISE"} /\ billingPeriod \in {"monthly", "annual"}

\* PRICING_CONFIG[tier].stripePriceIds[billingPeriod]
stripePriceId(tier, billingPeriod) ==
    CASE tier = "PRO" /\ billingPeriod = "monthly" -> "price_pro_monthly"
      [] tier = "PRO" /\ billingPeriod = "annual" -> "price_pro_annual"
      [] tier = "ENTERPRISE" /\ billingPeriod = "monthly" -> "price_enterprise_monthly"
      [] tier = "ENTERPRISE" /\ billingPeriod = "annual" -> "price_enterprise_annual"
      [] OTHER -> Null

\* faulty variant: a row that already holds another id is a conflict
attachCustomerIdOnce(row, id) ==
    IF row.stripeCustomerId \notin {NoCustomer, id}
    THEN [row |-> row, error |-> "Conflict"]
    ELSE [row |-> [row EXCEPT !.stripeCustomerId = id], error |-> Null]

\* getOrCreateStripeCustomer: prisma.user.update({ data: { stripeCustomerId } }):
\* the row it leaves and the error it throws
attachCustomerId(row, id) ==
    [row |-> [row EXCEPT !.stripeCustomerId = id], error |-> Null]

\* faulty variant: the session's metadata is that of subscription_data,
\* without the billing period
checkoutSessionNoPeriod(c) ==
    [customer |-> c.customerId, userId |-> c.userId, tier |-> c.tier,
     billingPeriod |-> Null,
     price |-> stripePriceId(c.tier, c.billingPeriod)]

\* the session stripe.checkout.sessions.create returns
checkoutSession(c) ==
    [customer |-> c.customerId, userId |-> c.userId, tier |-> c.tier,
     billingPeriod |-> c.billingPeriod,
     price |-> stripePriceId(c.tier, c.billingPeriod)]

\* the request of the authenticated user u arrives and its body is validated;
\* createCheckoutSession refuses the FREE tier
CheckoutStart(p, u, tier, billingPeriod) ==
    /\ co[p].pc \in {"idle", "done"}
    /\ Exists(u)
    /\ Len(customers) + Cardinality({q \in CheckoutProcs \ {p} :
                                        co[q].pc \notin {"idle", "done"}}) < MaxCustomers
    /\ LET base == [CoIdle EXCEPT !.userId = u, !.tier = tier,
                                  !.billingPeriod = billingPeriod,
                                  !.startNull = (users[u].stripeCustomerId = NoCustomer)]
       IN  co' = [co EXCEPT ![p] =
                IF ~createCheckoutSchema(tier, billingPeriod)
                THEN [base EXCEPT !.pc = "done", !.http = 400,
                                  !.error = "Validation Error"]
                ELSE IF tier = "FREE"
                THEN [base EXCEPT !.pc = "done", !.http = 400,
                                  !.error = "Free tier does not require checkout"]
                ELSE [base EXCEPT !.pc = "findUser"]]
    /\ UNCHANGED <<portal, gate, users, payments, customers, reg, wh, applied, aux>>

\* createCheckoutSession: await prisma.user.findUnique (email, stripeCustomerId)
CheckoutFindUser(p) ==
    /\ co[p].pc = "findUser"
    /\ co' = [co EXCEPT ![p] =
                IF ~Exists(co[p].userId)
                THEN [@ EXCEPT !.pc = "done", !.http = 400, !.error = "User not found"]
                ELSE [@ EXCEPT !.pc = "getCustomer"]]
    /\ UNCHANGED <<portal, gate, users, payments, customers, reg, wh, applied, aux>>

\* getOrCreateStripeCustomer: await prisma.user.findUnique (stripeCustomerId);
\* a stored id is returned at once
CheckoutGetCustomer(p) ==
    /\ co[p].pc = "getCustomer"
    /\ LET id == users[co[p].userId].stripeCustomerId
       IN  co' = [co EXCEPT ![p] =
                IF id # NoCustomer
                THEN [@ EXCEPT !.pc = "createSession", !.customerId = id]
                ELSE [@ EXCEPT !.pc = "createCustomer"]]
    /\ UNCHANGED <<portal, gate, users, payments, customers, reg, wh, applied, aux>>

\* getOrCreateStripeCustomer: await stripe.customers.create
CheckoutCreateCustomer(p, ok) ==
    /\ co[p].pc = "createCustomer"
    /\ IF ok
       THEN /\ Len(customers) < MaxCustomers
            /\ customers' = Append(customers, co[p].userId)
            /\ co' = [co EXCEPT ![p].pc = "saveCustomer",
                                ![p].customerId = Len(customers) + 1]
       ELSE /\ customers' = customers
            /\ co' = [co EXCEPT ![p].pc = "done", ![p].http = 400,
                                ![p].error = "gateway"]
    /\ UNCHANGED <<portal, gate, users, payments, reg, wh, applied, aux>>

\* getOrCreateStripeCustomer: await prisma.user.update (stripeCustomerId)
CheckoutSaveCustomer(p, ok) ==
    /\ co[p].pc = "saveCustomer"
    /\ LET u == co[p].userId
           r == attachCustomerId(users[u], co[p].customerId)
       IN  IF ok /\ r.error = Null
           THEN /\ users' = [users EXCEPT ![u] = r.row]
                /\ co' = [co EXCEPT ![p].pc = "createSession"]
           ELSE /\ users' = users
                /\ co' = [co EXCEPT ![p].pc = "done", ![p].http = 400,
                                    ![p].error = IF ok THEN r.error ELSE "database"]
    /\ UNCHANGED <<portal, gate, payments, customers, reg, wh, applied, aux>>

\* createCheckoutSession: await stripe.checkout.sessions.create; the route
\* answers with the session
CheckoutCreateSession(p, ok) ==
    /\ co[p].pc = "createSession"
    /\ co' = [co EXCEPT ![p] =
                IF ok
                THEN [@ EXCEPT !.pc = "done", !.http = 200,
                               !.session = checkoutSession(co[p])]
                ELSE [@ EXCEPT !.pc = "done", !.http = 400, !.error = "gateway"]]
    /\ UNCHANGED <<portal, gate, users, payments, customers, reg, wh, applied, aux>>

(***************************************************************************)
(* POST /api/payment/create-customer-portal-session:                       *)
(* createCustomerPortalSession.                                            *)
(***************************************************************************)
\* faulty variant: the customer id is not looked at
createCustomerPortalSessionErrorUserOnly(row) ==
    IF row = NoUser THEN "User not found" ELSE Null

\* createCustomerPortalSession: the error it throws after
\* prisma.user.findUnique returned the row, Null when it goes on
createCustomerPortalSessionError(row) ==
    IF row = NoUser THEN "User not found"
    ELSE IF row.stripeCustomerId = NoCustomer
    THEN "User does not have a Stripe customer ID"
    ELSE Null

\* the request of the authenticated user u arrives and its body is validated
\* (customerPortalSchema: returnUrl, when given, is a URL)
PortalStart(u, valid) ==
    /\ portal.pc \in {"idle", "done"}
    /\ Exists(u)
    /\ portal' = IF valid
                 THEN [PortalIdle EXCEPT !.pc = "findUser", !.userId = u]
                 ELSE [PortalIdle EXCEPT !.pc = "done", !.userId = u, !.http = 400,
                                         !.error = "Validation Error"]
    /\ UNCHANGED <<gate, users, payments, customers, reg, wh, co, applied, aux>>

\* createCustomerPortalSession: await prisma.user.findUnique and the two
\* checks of its result; the route answers an exception with 400
PortalFindUser ==
    /\ portal.pc = "findUser"
    /\ LET row == users[portal.userId]
           err == createCustomerPortalSessionError(row)
       IN  portal' = IF err # Null
                     THEN [portal EXCEPT !.pc = "done", !.http = 400, !.error = err]
                     ELSE [portal EXCEPT !.pc = "createSession",
                                         !.customer = row.stripeCustomerId]
    /\ UNCHANGED <<gate, users, payments, customers, reg, wh, co, applied, aux>>

\* createCustomerPortalSession: await stripe.billingPortal.sessions.create;
\* the route answers with the session's url
PortalCreateSession(ok) ==
    /\ portal.pc = "createSession"
    /\ portal' = IF ok
                 THEN [portal EXCEPT !.pc = "done", !.http = 200, !.calls = @ + 1]
                 ELSE [portal EXCEPT !.pc = "done", !.http = 400, !.calls = @ + 1,
                                     !.error = "gateway"]
    /\ UNCHANGED <<gate, users, payments, customers, reg, wh, co, applied, aux>>

(***************************************************************************)
(* POST /api/auth/login, PUT /api/auth/profile and                         *)
(* POST /api/auth/change-password: loginUser, updateUserProfile and        *)
(* changePassword.                                                         *)
(***************************************************************************)
\* the user whose row has the email, Null when there is none
UserByEmail(email) ==
    IF EmailTaken(email)
    THEN CHOOSE u \in UserIds : Exists(u) /\ users[u].email = email
    ELSE Null

\* a key of a request body or of update data that is there
Has(data, key) == key \in DOMAIN data /\ data[key] # Null

\* faulty variant: the keys of the body the schema does not know are kept
updateProfileSchemaPassthrough(body) == body

\* updateProfileSchema.safeParse(body).data: z.object drops the keys it does
\* not name
updateProfileSchema(body) == [name |-> body.name, email |-> body.email]

\* prisma.user.update({ where: { id }, data }) of updateUserProfile: the
\* columns of the row that data names are written
updateUserProfileData(row, data) ==
    [row EXCEPT !.email = IF Has(data, "email") THEN data.email ELSE @,
                !.tier = IF Has(data, "subscriptionTier")
                         THEN data.subscriptionTier ELSE @]

\* POST /login: the body has passed loginSchema
LoginStart(email, password) ==
    /\ acct.pc \in {"idle", "done"}
    /\ acct' = [AcctIdle EXCEPT !.pc = "loginFind", !.op = "login",
                                !.data = [email |-> email], !.password = password]
    /\ UNCHANGED <<services, lifecycle, st, creds>>

\* loginUser: await prisma.user.findUnique({ where: { email } })
LoginFind ==
    /\ acct.pc = "loginFind"
    /\ LET u == UserByEmail(acct.data.email)
       IN  acct' = IF u = Null
                   THEN [acct EXCEPT !.pc = "done", !.http = 401,
                                     !.error = "Invalid email or password"]
                   ELSE [acct EXCEPT !.pc = "loginVerify", !.userId = u,
                                     !.hash = creds[u].passwordHash]
    /\ UNCHANGED <<services, lifecycle, st, creds>>

\* loginUser: await verifyPassword; the route answers with the token
LoginVerify ==
    /\ acct.pc = "loginVerify"
    /\ acct' = IF verifyPassword(acct.password, acct.hash)
               THEN [acct EXCEPT !.pc = "done", !.http = 200]
               ELSE [acct EXCEPT !.pc = "done", !.http = 401,
                                 !.error = "Invalid email or password"]
    /\ UNCHANGED <<services, lifecycle, st, creds>>

\* PUT /profile of the authenticated user u: the body is validated; a new
\* email is looked up first
ProfileStart(u, body) ==
    /\ acct.pc \in {"idle", "done"}
    /\ Exists(u)
    /\ LET data == updateProfileSchema(body)
           base == [AcctIdle EXCEPT !.op = "profile", !.userId = u, !.data = data]
       IN  acct' = IF body.email \notin Emails \cup {Null}
                   THEN [base EXCEPT !.pc = "done", !.http = 400,
                                     !.error = "Validation Error"]
                   ELSE IF Has(data, "email")
                   THEN [base EXCEPT !.pc = "profileCheck"]
                   ELSE [base EXCEPT !.pc = "profileUpdate"]
    /\ UNCHANGED <<services, lifecycle, st, creds>>

\* updateUserProfile: await prisma.user.findUnique({ where: { email } })
ProfileCheck ==
    /\ acct.pc = "profileCheck"
    /\ acct' = IF UserByEmail(acct.data.email) \notin {Null, acct.userId}
               THEN [acct EXCEPT !.pc = "done", !.http = 409,
                                 !.error = "Email already in use"]
               ELSE [acct EXCEPT !.pc = "profileUpdate"]
    /\ UNCHANGED <<services, lifecycle, st, creds>>

\* updateUserProfile: await prisma.user.update; the unique index on email
\* rejects an email another row has taken since the lookup
ProfileUpdate(ok) ==
    /\ acct.pc = "profileUpdate"
    /\ LET u == acct.userId
           taken == /\ Has(acct.data, "email")
                    /\ UserByEmail(acct.data.email) \notin {Null, u}
       IN  IF ~ok \/ taken
           THEN /\ acct' = [acct EXCEPT !.pc = "done", !.http = 400,
                                        !.error = "database"]
                /\ UNCHANGED <<users, creds>>
           ELSE /\ users' = [users EXCEPT ![u] = updateUserProfileData(@, acct.data)]
                /\ creds' = [creds EXCEPT ![u].name =
                                IF Has(acct.data, "name") THEN acct.data.name ELSE @]
                /\ acct' = [acct EXCEPT !.pc = "done", !.http = 200]
    /\ UNCHANGED <<payments, customers, reg, wh, co, gate, applied, portal, st, services>>

\* POST /change-password of the authenticated user u: the body is validated
\* (newPassword has 8 characters or more)
PasswordStart(u, password, newPassword) ==
    /\ acct.pc \in {"idle", "done"}
    /\ Exists(u)
    /\ LET base == [AcctIdle EXCEPT !.op = "password", !.userId = u,
                                    !.password = password,
                                    !.newPassword = newPassword]
       IN  acct' = IF newPassword = "short"
                   THEN [base EXCEPT !.pc = "done", !.http = 400,
                                     !.error = "Validation Error"]
                   ELSE [base EXCEPT !.pc = "passwordFind"]
    /\ UNCHANGED <<services, lifecycle, st, creds>>

\* changePassword: await prisma.user.findUnique (passwordHash)
PasswordFind ==
    /\ acct.pc = "passwordFind"
    /\ acct' = IF ~Exists(acct.userId)
               THEN [acct EXCEPT !.pc = "done", !.http = 400,
                                 !.error = "User not found"]
               ELSE [acct EXCEPT !.pc = "passwordVerify",
                                 !.hash = creds[acct.userId].passwordHash]
    /\ UNCHANGED <<services, lifecycle, st, creds>>

\* changePassword: await verifyPassword, then await hashPassword
PasswordVerify ==
    /\ acct.pc = "passwordVerify"
    /\ acct' = IF verifyPassword(acct.password, acct.hash)
               THEN [acct EXCEPT !.pc = "passwordUpdate",
                                 !.hash = hashPassword(acct.newPassword)]
               ELSE [acct EXCEPT !.pc = "done", !.http = 401,
                                 !.error = "Current password is incorrect"]
    /\ UNCHANGED <<services, lifecycle, st, creds>>

\* changePassword: await prisma.user.update({ data: { passwordHash } })
PasswordUpdate(ok) ==
    /\ acct.pc = "passwordUpdate"
    /\ IF ok
       THEN /\ creds' = [creds EXCEPT ![acct.userId].passwordHash = acct.hash]
            /\ acct' = [acct EXCEPT !.pc = "done", !.http = 200]
       ELSE /\ creds' = creds
            /\ acct' = [acct EXCEPT !.pc = "done", !.http = 400, !.error = "database"]
    /\ UNCHANGED <<services, lifecycle, st>>

(***************************************************************************)
(* GET /api/payment/subscription-status: getSubscriptionDetails.           *)
(***************************************************************************)
\* faulty variant: a free account is not active
isActiveStatusOnly(sub) ==
    sub.status = "active" \/ sub.status = "trialing"

\* the isActive flag of the route's answer
isActive(sub) ==
    sub.tier = "FREE" \/ sub.status = "active" \/ sub.status = "trialing"

\* faulty variant: the provider's failure is thrown on
subscriptionsListErrorThrown(ok) ==
    IF ok THEN Null ELSE "gateway"

\* getSubscriptionDetails: the error that leaves the try block around
\* stripe.subscriptions.list; the catch logs a failure and throws nothing
subscriptionsListError(ok) == Null

\* the route's answer for the details getSubscriptionDetails returns
statusAnswer(r) ==
    [r EXCEPT !.pc = "done", !.http = 200,
              !.isActive = isActive([tier |-> r.tier, status |-> r.status])]

\* the request of the authenticated user u arrives
StatusStart(u) ==
    /\ st.pc \in {"idle", "done"}
    /\ Exists(u)
    /\ st' = [StIdle EXCEPT !.pc = "findUser", !.userId = u]
    /\ UNCHANGED <<services, lifecycle, creds, acct>>

\* getSubscriptionDetails: await prisma.user.findUnique; without a customer
\* id the details are returned at once
StatusFindUser(ok) ==
    /\ st.pc = "findUser"
    /\ LET row == users[st.userId]
           read == [st EXCEPT !.tier = row.tier, !.status = row.status,
                              !.endDate = row.endDate]
       IN  st' = IF ~ok
                 THEN [st EXCEPT !.pc = "done", !.http = 400, !.error = "database"]
                 ELSE IF row = NoUser
                 THEN [st EXCEPT !.pc = "done", !.http = 400,
                                 !.error = "User not found"]
                 ELSE IF row.stripeCustomerId # NoCustomer
                 THEN [read EXCEPT !.pc = "list"]
                 ELSE statusAnswer(read)
    /\ UNCHANGED <<services, lifecycle, creds, acct>>

\* getSubscriptionDetails: await stripe.subscriptions.list inside try/catch
StatusList(ok) ==
    /\ st.pc = "list"
    /\ LET err == subscriptionsListError(ok)
           r == [st EXCEPT !.list = IF ok THEN "ok" ELSE "failed"]
       IN  st' = IF err # Null
                 THEN [r EXCEPT !.pc = "done", !.http = 400, !.error = err]
                 ELSE statusAnswer(r)
    /\ UNCHANGED <<services, lifecycle, creds, acct>>

(***************************************************************************)
(* The subscription lifecycle: registrations, webhook deliveries and gated *)
(* requests.                                                               *)
(***************************************************************************)
Init ==
    /\ users = [u \in UserIds |-> NoUser]
    /\ payments = <<>>
    /\ customers = <<>>
    /\ reg = [p \in RegProcs |-> RegIdle]
    /\ wh = WhIdle
    /\ co = [p \in CheckoutProcs |-> CoIdle]
    /\ gate = NoGate
    /\ applied = [u \in UserIds |-> 0]
    /\ portal = PortalIdle
    /\ InitAux

\* the user table has room for the row of one more registration
UserRoom ==
    Cardinality({u \in UserIds : Exists(u)})
      + Cardinality({q \in RegProcs : reg[q].pc = "create"}) < MaxUsers

Next ==
    \/ \E email \in Emails, valid \in BOOLEAN :
          UserRoom /\ RegisterFind("r1", email, valid)
    \/ RegisterCreate("r1")
    \/ \E e \in Events : WebhookReceive(e, "valid", TRUE)
    \/ \E e \in PayloadSamples, sig \in Signatures, secretSet \in BOOLEAN :
          (sig # "valid" \/ ~secretSet) /\ WebhookReceive(e, sig, secretSet)
    \/ \E secretSet \in BOOLEAN : WebhookRedeliver(secretSet)
    \/ \E ok \in BOOLEAN : WebhookRetrieve(ok)
    \/ \E ok \in BOOLEAN : WebhookUpdateUser(ok)
    \/ \E ok \in BOOLEAN : WebhookCreatePayment(ok)

Spec == Init /\ [][Next]_vars


(***************************************************************************)
(* Concurrent checkout requests of registered users.                       *)
(***************************************************************************)
InitCheckout ==
    /\ users = [u \in UserIds |->
                  NewUserRow(IF u = "u1" THEN "a@x.io" ELSE "b@x.io")]
    /\ payments = <<>>
    /\ customers = <<>>
    /\ reg = [p \in RegProcs |-> RegIdle]
    /\ wh = WhIdle
    /\ co = [p \in CheckoutProcs |-> CoIdle]
    /\ gate = NoGate
    /\ applied = [u \in UserIds |-> 0]
    /\ portal = PortalIdle
    /\ InitAux

NextCheckout ==
    \E p \in CheckoutProcs :
        \/ \E u \in UserIds, tier \in Tiers, billingPeriod \in BillingPeriods :
              CheckoutStart(p, u, tier, billingPeriod)
        \/ CheckoutFindUser(p)
        \/ CheckoutGetCustomer(p)
        \/ \E ok \in BOOLEAN : CheckoutCreateCustomer(p, ok)
        \/ \E ok \in BOOLEAN : CheckoutSaveCustomer(p, ok)
        \/ \E ok \in BOOLEAN : CheckoutCreateSession(p, ok)

SpecCheckout == InitCheckout /\ [][NextCheckout]_vars

(***************************************************************************)
(* A checkout request followed by the provider's checkout.session.completed *)
(* event for the session it created.                                       *)
(***************************************************************************)
\* the event of a completed session: session.metadata is what
\* createCheckoutSession put there, current_period_end is the provider's
sessionCompletedEvent(session, periodEnd) ==
    [type |-> "checkout.session.completed", created |-> 1,
     userId |-> session.userId, tier |-> session.tier,
     billingPeriod |-> session.billingPeriod, session |-> "cs_1",
     status |-> Null, periodEnd |-> periodEnd]

\* the user pays the session of the answered request p and the provider
\* delivers its checkout.session.completed event
SessionCompleted(p, periodEnd) ==
    /\ co[p].pc = "done"
    /\ co[p].http = 200
    /\ WebhookReceive(sessionCompletedEvent(co[p].session, periodEnd), "valid", TRUE)

NextRoundTrip ==
    \/ \E u \in UserIds, tier \in Tiers, billingPeriod \in BillingPeriods :
          CheckoutStart("c1", u, tier, billingPeriod)
    \/ CheckoutFindUser("c1")
    \/ CheckoutGetCustomer("c1")
    \/ \E ok \in BOOLEAN : CheckoutCreateCustomer("c1", ok)
    \/ \E ok \in BOOLEAN : CheckoutSaveCustomer("c1", ok)
    \/ \E ok \in BOOLEAN : CheckoutCreateSession("c1", ok)
    \/ \E periodEnd \in Times : SessionCompleted("c1", periodEnd)
    \/ \E ok \in BOOLEAN : WebhookRetrieve(ok)
    \/ \E ok \in BOOLEAN : WebhookUpdateUser(ok)
    \/ \E ok \in BOOLEAN : WebhookCreatePayment(ok)

SpecRoundTrip == InitCheckout /\ [][NextRoundTrip]_vars

(***************************************************************************)
(* Billing-portal requests beside the checkout requests that give the      *)
(* accounts their customer ids.                                            *)
(***************************************************************************)
NextPortal ==
    \/ \E u \in UserIds, tier \in PaidTiers, billingPeriod \in BillingPeriods :
          CheckoutStart("c1", u, tier, billingPeriod)
    \/ CheckoutFindUser("c1")
    \/ CheckoutGetCustomer("c1")
    \/ \E ok \in BOOLEAN : CheckoutCreateCustomer("c1", ok)
    \/ \E ok \in BOOLEAN : CheckoutSaveCustomer("c1", ok)
    \/ \E ok \in BOOLEAN : CheckoutCreateSession("c1", ok)
    \/ \E u \in UserIds, valid \in BOOLEAN : PortalStart(u, valid)
    \/ PortalFindUser
    \/ \E ok \in BOOLEAN : PortalCreateSession(ok)

SpecPortal == InitCheckout /\ [][NextPortal]_vars

(***************************************************************************)
(* Subscription-status requests on every user row the lifecycle leaves.    *)
(***************************************************************************)
\* the rows of registered users: the status is null only on a row no webhook
\* event has written (tier FREE, no end date)
UserRows ==
    {r \in [email : {"a@x.io"}, tier : Tiers, status : SubStatuses \cup {Null},
            endDate : {NoDate} \cup Times, stripeCustomerId : {NoCustomer, 1}] :
        r.status = Null => (r.tier = "FREE" /\ r.endDate = NoDate)}

InitStatus ==
    /\ users \in [UserIds -> UserRows]
    /\ payments = <<>>
    /\ customers = <<>>
    /\ reg = [p \in RegProcs |-> RegIdle]
    /\ wh = WhIdle
    /\ co = [p \in CheckoutProcs |-> CoIdle]
    /\ gate = NoGate
    /\ applied = [u \in UserIds |-> 0]
    /\ portal = PortalIdle
    /\ InitAux

NextStatus ==
    \/ \E u \in UserIds : StatusStart(u)
    \/ \E ok \in BOOLEAN : StatusFindUser(ok)
    \/ \E ok \in BOOLEAN : StatusList(ok)

SpecStatus == InitStatus /\ [][NextStatus]_vars

(***************************************************************************)
(* Concurrent registrations.                                               *)
(***************************************************************************)
NextRegister ==
    \E p \in RegProcs :
        \/ \E email \in Emails, valid \in BOOLEAN : RegisterFind(p, email, valid)
        \/ RegisterCreate(p)

SpecRegister == Init /\ [][NextRegister]_vars

(***************************************************************************)
(* The requests of the users (login, profile, password, checkout, billing  *)
(* portal, subscription status) and the provider's webhook deliveries, one *)
(* request at a time.                                                      *)
(***************************************************************************)
\* no request is being handled and every answer has been sent
Quiet ==
    /\ co["c1"].pc = "idle" /\ portal.pc = "idle" /\ st.pc = "idle"
    /\ acct.pc = "idle" /\ wh.pc = "idle"

\* the answer of the handled request has been sent and its context is gone
ResponseDelivered ==
    /\ \/ co["c1"].pc = "done" \/ portal.pc = "done" \/ st.pc = "done"
       \/ acct.pc = "done" \/ wh.pc = "done"
    /\ co' = [co EXCEPT !["c1"] = CoIdle]
    /\ portal' = PortalIdle
    /\ st' = StIdle
    /\ acct' = AcctIdle
    /\ wh' = WhIdle
    /\ UNCHANGED <<users, payments, customers, reg, gate, applied, creds, services>>

\* the bodies of PUT /profile
ProfileBodies ==
    [name : Names \cup {Null}, email : Emails \cup {Null, "bad"},
     subscriptionTier : {Null, "ENTERPRISE"}]

\* the events the provider delivers about the account u1
AccountEvents ==
    {e \in Events : /\ e.userId = "u1" /\ e.created = 1 /\ e.periodEnd = 1
                    /\ e.tier \in {"PRO", Null}
                    /\ e.type = "checkout.session.completed" => MetadataComplete(e)}

NextAccount ==
    \/ /\ Quiet
       /\ \/ \E email \in Emails, password \in Passwords : LoginStart(email, password)
          \/ \E u \in UserIds, body \in ProfileBodies : ProfileStart(u, body)
          \/ \E u \in UserIds, password, newPassword \in Passwords :
                PasswordStart(u, password, newPassword)
          \/ \E u \in UserIds, tier \in Tiers : CheckoutStart("c1", u, tier, "monthly")
          \/ \E u \in UserIds, valid \in BOOLEAN : PortalStart(u, valid)
          \/ \E u \in UserIds : StatusStart(u)
          \/ \E e \in AccountEvents : WebhookReceive(e, "valid", TRUE)
    \/ ResponseDelivered
    \/ LoginFind
    \/ LoginVerify
    \/ ProfileCheck
    \/ \E ok \in BOOLEAN : ProfileUpdate(ok)
    \/ PasswordFind
    \/ PasswordVerify
    \/ \E ok \in BOOLEAN : PasswordUpdate(ok)
    \/ CheckoutFindUser("c1")
    \/ CheckoutGetCustomer("c1")
    \/ \E ok \in BOOLEAN : CheckoutCreateCustomer("c1", ok)
    \/ \E ok \in BOOLEAN : CheckoutSaveCustomer("c1", ok)
    \/ \E ok \in BOOLEAN : CheckoutCreateSession("c1", ok)
    \/ PortalFindUser
    \/ \E ok \in BOOLEAN : PortalCreateSession(ok)
    \/ \E ok \in BOOLEAN : StatusFindUser(ok)
    \/ \E ok \in BOOLEAN : StatusList(ok)
    \/ \E ok \in BOOLEAN : WebhookRetrieve(ok)
    \/ \E ok \in BOOLEAN : WebhookUpdateUser(ok)
    \/ \E ok \in BOOLEAN : WebhookCreatePayment(ok)

SpecAccount == InitCheckout /\ [][NextAccount]_vars

(***************************************************************************)
(* The rate limiter: the requests of one user, whose tier stays the same,  *)
(* and of clients without a user, while time passes.                       *)
(***************************************************************************)
InitRate ==
    /\ \E tier \in Tiers :
          users = [u \in UserIds |->
                     IF u = "u1"
                     THEN [NewUserRow("a@x.io") EXCEPT
                             !.tier = tier,
                             !.status = IF tier = "FREE" THEN Null ELSE "active"]
                     ELSE NoUser]
    /\ payments = <<>>
    /\ customers = <<>>
    /\ reg = [p \in RegProcs |-> RegIdle]
    /\ wh = WhIdle
    /\ co = [p \in CheckoutProcs |-> CoIdle]
    /\ gate = NoGate
    /\ applied = [u \in UserIds |-> 0]
    /\ portal = PortalIdle
    /\ InitAux

\* the clock advances by 1 ms or by the length of a window, so that a request
\* can arrive at the reset time of a window and 1 ms after it
NextRate ==
    \/ \E d \in {1, windowMs} : Tick(d)
    \/ RateLimit("u1", Null)
    \/ \E forwarded \in ForwardedFor : RateLimit(Null, forwarded)

SpecRate == InitRate /\ [][NextRate]_vars

(***************************************************************************)
(* authMiddleware: requests with every kind of Authorization header, while *)
(* accounts are registered and time passes.                                *)
(***************************************************************************)
NextAuth ==
    \/ \E authHeader \in Headers : AuthStart(authHeader)
    \/ \E ok \in BOOLEAN : AuthGetUser(ok)
    \/ \E d \in TickSteps : Tick(d)
    \/ \E email \in Emails : RegisterFind("r1", email, TRUE)
    \/ RegisterCreate("r1")

SpecAuth == Init /\ [][NextAuth]_vars

(***************************************************************************)
(* The weather service: calls for the spellings of one city, while time    *)
(* passes.                                                                 *)
(***************************************************************************)
NextWeather ==
    \/ \E city \in Cities : getCurrentWeather(city)
    \/ \E city \in Cities : getWeatherForecast(city)
    \/ clearWeatherCache
    \/ \E d \in TickSteps : Tick(d)

SpecWeather == InitCheckout /\ [][NextWeather]_vars

(***************************************************************************)
(* The AuthProvider from its mount on: the calls of its functions and the  *)
(* completions of their API calls, in every order.                         *)
(***************************************************************************)
\* the auth_token a former visit may have left in localStorage
StoredTokens == {Null, "t0"}

InitFrontend ==
    /\ users = [u \in UserIds |->
                  NewUserRow(IF u = "u1" THEN "a@x.io" ELSE "b@x.io")]
    /\ payments = <<>>
    /\ customers = <<>>
    /\ reg = [p \in RegProcs |-> RegIdle]
    /\ wh = WhIdle
    /\ co = [p \in CheckoutProcs |-> CoIdle]
    /\ gate = NoGate
    /\ applied = [u \in UserIds |-> 0]
    /\ portal = PortalIdle
    /\ InitRequests
    /\ InitServices
    /\ fe \in {FeInit(storedToken) : storedToken \in StoredTokens}

NextFrontend ==
    \/ LoadUser
    \/ \E ok \in BOOLEAN, user \in UserIds : LoadUserDone(ok, user)
    \/ FeLogin
    \/ \E ok \in BOOLEAN, authToken \in ApiTokens, authUser \in UserIds :
          FeLoginDone(ok, authToken, authUser)
    \/ FeRegister
    \/ \E ok \in BOOLEAN, authToken \in ApiTokens, authUser \in UserIds :
          FeRegisterDone(ok, authToken, authUser)
    \/ FeLogout
    \/ FeRefreshUser
    \/ \E ok \in BOOLEAN, user \in UserIds : FeRefreshUserDone(ok, user)

SpecFrontend == InitFrontend /\ [][NextFrontend]_vars

(***************************************************************************)
(* The access gate on every user row.                                      *)
(***************************************************************************)
InitGate ==
    /\ users \in [UserIds ->
                    {NoUser} \cup
                    [email : {"a@x.io"}, tier : Tiers, status : SubStatuses \cup {Null},
                     endDate : {NoDate}, stripeCustomerId : {NoCustomer}]]
    /\ payments = <<>>
    /\ customers = <<>>
    /\ reg = [p \in RegProcs |-> RegIdle]
    /\ wh = WhIdle
    /\ co = [p \in CheckoutProcs |-> CoIdle]
    /\ gate = NoGate
    /\ applied = [u \in UserIds |-> 0]
    /\ portal = PortalIdle
    /\ InitAux

NextGate ==
    \E u \in UserIds, allowedTiers \in (SUBSET Tiers) \ {{}}, authenticated \in BOOLEAN :
        GateCheck(u, allowedTiers, authenticated)

SpecGate == InitGate /\ [][NextGate]_vars


(***************************************************************************)
(* Properties.                                                             *)
(***************************************************************************)
\* the user an answered or running webhook delivery is about
Target == wh.ev.userId

\* the delivery of a signature-verified event of the given type has been
\* answered with success after writing the user row
Applied(type) ==
    /\ wh.pc = "done" /\ wh.http = 200 /\ wh.ev.type = type /\ wh.writes = 1

\* C1: every account whose subscriptionTier is FREE has subscriptionStatus
\* null and subscriptionEndDate null.
FreeImpliesNoSubscription ==
    \A u \in UserIds :
        (Exists(u) /\ users[u].tier = "FREE")
            => (users[u].status = Null /\ users[u].endDate = NoDate)

\* C2: the second delivery of an event whose first delivery was answered
\* with success writes no user row and leaves the user table and the payment
\* table as the first delivery left them.
SecondDeliveryIsNoOp ==
    [][(wh'.attempt = 2 /\ wh'.firstHttp = 200)
          => (wh'.writes = 0 /\ (wh' # wh => (users' = users /\ payments' = payments)))]_vars

\* C3: a customer.subscription.updated event with status past_due that is
\* older than the customer.subscription.updated event which made the account
\* active leaves the account active.
OlderUpdateDiscarded ==
    [][(/\ wh.pc = "update" /\ wh'.pc = "done" /\ wh'.http = 200
        /\ wh.ev.type = "customer.subscription.updated"
        /\ wh.ev.status = "past_due"
        /\ users[Target].status = "active"
        /\ applied[Target] > wh.ev.created)
          => users'[Target].status = "active"]_vars

\* C4: a request to POST /webhook without a stripe-signature header, or with
\* one that fails verification, is answered 400 before its payload is read
\* and changes neither the user table nor the payment table.  (With a header
\* and no STRIPE_WEBHOOK_SECRET the route answers 500 before it verifies.)
InvalidSignatureRefused ==
    [][wh'.sig \in {"missing", "invalid"}
          => (/\ wh'.pc = "done" /\ wh'.ev = NoEvent
              /\ wh'.writes = 0 /\ wh'.paid = 0
              /\ (wh'.sig = "missing" \/ wh'.error # "Webhook secret not configured")
                    => wh'.http = 400
              /\ wh' # wh => (users' = users /\ payments' = payments))]_vars

InvalidSignatureRefusedWitness ==
    /\ wh.pc = "done" /\ wh.sig = "invalid" /\ wh.http = 400
    /\ \E u \in UserIds : Exists(u) /\ users[u].tier # "FREE"
    /\ Len(payments) > 0

\* C5: a signature-verified checkout.session.completed event whose metadata
\* lacks userId, tier or billingPeriod fails with the missing-metadata error
\* and neither writes a user row nor creates a payment row.
MalformedCheckoutChangesNothing ==
    (/\ wh.ev.type = "checkout.session.completed"
     /\ (wh.ev.userId = Null \/ wh.ev.tier = Null \/ wh.ev.billingPeriod = Null))
        => (/\ wh.pc = "done" /\ wh.http # 200
            /\ wh.error = "Missing required metadata in checkout session"
            /\ wh.writes = 0 /\ wh.paid = 0)

MalformedCheckoutWitness ==
    /\ wh.pc = "done" /\ wh.ev.type = "checkout.session.completed"
    /\ wh.ev.userId # Null /\ Exists(wh.ev.userId)
    /\ wh.ev.tier = Null /\ wh.ev.billingPeriod # Null
    /\ wh.error = "Missing required metadata in checkout session"

\* C6: for the authenticated user, requireSubscription(allowedTiers) answers
\* 403 when the tier is not allowed, else 403 when the tier is paid and the
\* status is neither active nor trialing, else calls the handler; it never
\* changes the user table.
GateDecision ==
    [][\A u \in UserIds, allowedTiers \in (SUBSET Tiers) \ {{}} :
          GateCheck(u, allowedTiers, TRUE)
            => LET allowed == users[u].tier \in allowedTiers
                   active == users[u].tier = "FREE"
                               \/ users[u].status \in {"active", "trialing"}
               IN  /\ gate'.next = (allowed /\ active)
                   /\ ~(allowed /\ active) => gate'.http = 403
                   /\ ~allowed => gate'.error = "insufficient_tier"
                   /\ (allowed /\ ~active) => gate'.error = "inactive_subscription"
                   /\ users' = users]_vars

GateDecisionWitness ==
    /\ gate.user # Null /\ gate.allowed = {"PRO"}
    /\ users[gate.user].tier = "PRO" /\ users[gate.user].status = "past_due"
    /\ gate.http = 403 /\ gate.error = "inactive_subscription" /\ ~gate.next

\* C7: a checkout.session.completed event with complete metadata
\* {userId A, tier, billingPeriod} whose subscription has period end D, once
\* answered with success, has made A's snapshot {tier, active, D} and has
\* created exactly one payment row, for A.
CheckoutCompletedUpgrades ==
    (wh.pc = "done" /\ wh.http = 200 /\ wh.ev.type = "checkout.session.completed")
        => (/\ Exists(Target)
            /\ Snapshot(users[Target]) =
                 [tier |-> wh.ev.tier, status |-> "active", endDate |-> wh.ev.periodEnd]
            /\ wh.writes = 1 /\ wh.paid = 1
            /\ Len(payments) > 0
            /\ payments[Len(payments)].userId = Target
            /\ payments[Len(payments)].tier = wh.ev.tier
            /\ payments[Len(payments)].billingPeriod = wh.ev.billingPeriod)

CheckoutCompletedWitness ==
    /\ Applied("checkout.session.completed")
    /\ wh.pre = [tier |-> "FREE", status |-> Null, endDate |-> NoDate]
    /\ wh.ev.tier = "PRO" /\ wh.ev.billingPeriod = "monthly" /\ wh.ev.periodEnd = MaxTime
    /\ Snapshot(users[Target]) = [tier |-> "PRO", status |-> "active", endDate |-> MaxTime]
    /\ Len(payments) = 1

\* C8: a customer.subscription.deleted event applied to an account in a paid
\* tier with status active or past_due makes its snapshot {FREE, null, null}.
DeletedResetsSnapshot ==
    (/\ Applied("customer.subscription.deleted")
     /\ wh.pre.tier \in PaidTiers /\ wh.pre.status \in {"active", "past_due"})
        => Snapshot(users[Target]) = [tier |-> "FREE", status |-> Null, endDate |-> NoDate]

\* C9: a customer.subscription.updated event applied to a PRO account leaves
\* the tier PRO; when its status is past_due the gate for PRO then denies the
\* account as inactive, and when its status is active the gate lets it through.
LapseThenRecovery ==
    (Applied("customer.subscription.updated") /\ wh.pre.tier = "PRO")
        => (/\ users[Target].tier = "PRO"
            /\ wh.ev.status = "past_due" =>
                 (/\ ~requireSubscription(users[Target], {"PRO"}).next
                  /\ requireSubscription(users[Target], {"PRO"}).error
                       = "inactive_subscription")
            /\ wh.ev.status = "active" =>
                 requireSubscription(users[Target], {"PRO"}).next)

LapseThenRecoveryWitness ==
    /\ Applied("customer.subscription.updated")
    /\ wh.pre = [tier |-> "PRO", status |-> "past_due", endDate |-> 1]
    /\ wh.ev.status = "active" /\ wh.ev.periodEnd > wh.pre.endDate
    /\ requireSubscription(users[Target], {"PRO"}).next

\* the errors of a checkout request that come from its input or from a failed
\* call to the provider or the database
EnvironmentErrors ==
    {"Validation Error", "Free tier does not require checkout", "gateway", "database"}

\* C10: two checkout requests of one account, both begun while the account had
\* no stripeCustomerId and both answered: unless the provider or the database
\* failed, both are answered 200 with a session, and the account stores the
\* customer id one of them created.
ConcurrentFirstCheckout ==
    \A p, q \in CheckoutProcs :
        (/\ p # q /\ co[p].pc = "done" /\ co[q].pc = "done"
         /\ co[p].userId = co[q].userId
         /\ co[p].startNull /\ co[q].startNull
         /\ co[p].error \notin EnvironmentErrors
         /\ co[q].error \notin EnvironmentErrors)
            => (/\ co[p].http = 200 /\ co[q].http = 200
                /\ co[p].error = Null /\ co[q].error = Null
                /\ co[p].session # NoSession /\ co[q].session # NoSession
                /\ users[co[p].userId].stripeCustomerId # NoCustomer
                /\ users[co[p].userId].stripeCustomerId
                     \in {co[p].customerId, co[q].customerId})

ConcurrentFirstCheckoutWitness ==
    /\ co["c1"].pc = "done" /\ co["c2"].pc = "done"
    /\ co["c1"].userId = co["c2"].userId
    /\ co["c1"].startNull /\ co["c2"].startNull
    /\ co["c1"].http = 200 /\ co["c2"].http = 200
    /\ co["c1"].customerId # co["c2"].customerId

\* C11: an account's stripeCustomerId, once set, is never changed to another
\* value by a later step (concurrent checkout requests of the account
\* included), and no two accounts hold the same stripeCustomerId.
CustomerIdImmutableAndUnique ==
    /\ [][\A u \in UserIds :
            users[u].stripeCustomerId # NoCustomer
                => users'[u].stripeCustomerId = users[u].stripeCustomerId]_vars
    /\ [](\A u, v \in UserIds :
            (u # v /\ users[u].stripeCustomerId # NoCustomer)
                => users[u].stripeCustomerId # users[v].stripeCustomerId)

\* C12: every account whose subscriptionTier is PRO or ENTERPRISE has a
\* subscriptionStatus that is not null.
PaidTierHasStatus ==
    \A u \in UserIds :
        (Exists(u) /\ users[u].tier \in PaidTiers) => users[u].status # Null

PaidTierHasStatusWitness ==
    /\ Applied("customer.subscription.updated")
    /\ wh.pre.tier = "ENTERPRISE" /\ wh.pre.status = "active"
    /\ users[Target].tier = "ENTERPRISE" /\ users[Target].status = "past_due"

\* C13: no webhook delivery leaves an account in a paid tier with status
\* canceled.
NoPaidCanceled ==
    \A u \in UserIds :
        ~(Exists(u) /\ users[u].tier \in PaidTiers /\ users[u].status = "canceled")

\* C14: a delivery whose signature was verified is answered with success,
\* whatever happens while its event is applied, unless it is a
\* checkout.session.completed event with incomplete metadata.
VerifiedDeliveryAcknowledged ==
    (/\ wh.pc = "done" /\ wh.sig = "valid" /\ wh.ev # NoEvent
     /\ ~(wh.ev.type = "checkout.session.completed" /\ ~MetadataComplete(wh.ev)))
        => wh.http = 200

\* C15: a delivery is answered with a client-error status (4xx) when its
\* signature fails verification, and when its signature is verified and its
\* checkout.session.completed event lacks required metadata.
FatalDeliveryClientError ==
    /\ (wh.pc = "done" /\ wh.error = "Invalid signature") => wh.http \in 400..499
    /\ (/\ wh.pc = "done" /\ wh.ev.type = "checkout.session.completed"
        /\ ~MetadataComplete(wh.ev))
          => wh.http \in 400..499

\* C16: a signature-verified event of type invoice.payment_failed,
\* invoice.payment_succeeded or of a type the route does not know is
\* answered with success at once and changes no user row, no payment row and
\* no customer.
UnhandledEventIsNoOp ==
    [][(/\ wh' # wh /\ wh'.sig = "valid"
        /\ wh'.ev.type \in {"invoice.payment_failed", "invoice.payment_succeeded",
                            "charge.refunded"})
          => (/\ wh'.pc = "done" /\ wh'.http = 200
              /\ wh'.writes = 0 /\ wh'.paid = 0
              /\ users' = users /\ payments' = payments
              /\ customers' = customers)]_vars

UnhandledEventWitness ==
    /\ wh.pc = "done" /\ wh.http = 200 /\ wh.ev.type = "invoice.payment_failed"
    /\ Exists(Target) /\ users[Target].tier = "PRO" /\ users[Target].status = "active"
    /\ Len(payments) > 0

\* C17: a checkout session completed with success has exactly one payment
\* row, however often its event is delivered (a further delivery of an event
\* answered with success creates no payment row), and a payment row, once
\* created, is neither changed nor removed.
OnePaymentPerSession ==
    /\ []((/\ wh.attempt = 2 /\ wh.firstHttp = 200
           /\ wh.ev.type = "checkout.session.completed")
             => wh.paid = 0)
    /\ [][/\ Len(payments') >= Len(payments)
          /\ \A i \in 1..Len(payments) : payments'[i] = payments[i]]_vars

\* C18: a checkout request for tier FREE is refused as an invalid request
\* (400, Validation Error) by the step that receives it: no customer is
\* created at the provider, no session is created and no user row changes.
FreeTierCheckoutRejected ==
    [][\A p \in CheckoutProcs :
          (co'[p] # co[p] /\ co'[p].tier = "FREE")
            => (/\ co'[p].pc = "done" /\ co'[p].http = 400
                /\ co'[p].error = "Validation Error"
                /\ co'[p].session = NoSession /\ co'[p].customerId = NoCustomer
                /\ users' = users /\ customers' = customers)]_vars

FreeTierCheckoutWitness ==
    /\ co["c1"].pc = "done" /\ co["c1"].tier = "FREE" /\ co["c1"].http = 400
    /\ users[co["c1"].userId].stripeCustomerId = NoCustomer
    /\ co["c2"].pc = "done" /\ co["c2"].http = 200
    /\ co["c2"].userId # co["c1"].userId

\* C19: the session of every answered checkout request of account a for
\* tier t and period p carries the metadata {userId a, tier t, billingPeriod
\* p}; the checkout.session.completed event that echoes it passes the
\* presence check, and its update sets the tier of a to t and changes no
\* other user row.
SessionMetadataRoundTrip ==
    /\ [](\A p \in CheckoutProcs :
            (co[p].pc = "done" /\ co[p].http = 200)
              => (/\ co[p].session.userId = co[p].userId
                  /\ co[p].session.tier = co[p].tier
                  /\ co[p].session.billingPeriod = co[p].billingPeriod
                  /\ MetadataComplete(sessionCompletedEvent(co[p].session, 1))))
    /\ [](wh.ev # NoEvent
            => (/\ MetadataComplete(wh.ev)
                /\ wh.error # "Missing required metadata in checkout session"))
    /\ [][(wh.pc \in {"idle", "done"} /\ wh' # wh)
            => (/\ wh'.ev.userId = co["c1"].userId
                /\ wh'.ev.tier = co["c1"].tier
                /\ wh'.ev.billingPeriod = co["c1"].billingPeriod)]_vars
    /\ [][(wh.pc = "update" /\ wh'.pc = "create")
            => (/\ users'[Target].tier = wh.ev.tier
                /\ \A v \in UserIds \ {Target} : users'[v] = users[v])]_vars

SessionMetadataRoundTripWitness ==
    /\ Applied("checkout.session.completed")
    /\ co["c1"].pc = "done" /\ co["c1"].http = 200
    /\ co["c1"].userId = Target /\ co["c1"].tier = "ENTERPRISE"
    /\ co["c1"].billingPeriod = "annual"
    /\ users[Target].tier = "ENTERPRISE"
    /\ \E v \in UserIds \ {Target} : users[v].tier = "FREE"
    /\ payments[Len(payments)].billingPeriod = "annual"

\* C20: a billing-portal request of an authenticated account whose
\* stripeCustomerId is null when the request reads it is answered 400, asks
\* the provider for no portal session and changes no user row.
PortalNeedsCustomer ==
    /\ [][(/\ portal.pc = "findUser" /\ portal' # portal
           /\ users[portal.userId].stripeCustomerId = NoCustomer)
            => (/\ portal'.pc = "done" /\ portal'.http = 400
                /\ portal'.error = "User does not have a Stripe customer ID"
                /\ portal'.calls = 0
                /\ users' = users /\ customers' = customers)]_vars
    /\ []((portal.pc = "done"
             /\ portal.error = "User does not have a Stripe customer ID")
            => (portal.http = 400 /\ portal.calls = 0))
    /\ [][portal' # portal => users' = users]_vars

PortalNeedsCustomerWitness ==
    /\ portal.pc = "done" /\ portal.http = 400
    /\ portal.error = "User does not have a Stripe customer ID"
    /\ users[portal.userId].stripeCustomerId = NoCustomer
    /\ \E v \in UserIds : users[v].stripeCustomerId # NoCustomer

\* C21: the isActive flag of an answered subscription-status request is true
\* exactly when requireSubscription, with the account's own tier as the only
\* allowed tier, lets the account through.
IsActiveMatchesGate ==
    (st.pc = "done" /\ st.http = 200)
        => (st.isActive
              = requireSubscription([users[st.userId] EXCEPT !.tier = st.tier,
                                                             !.status = st.status],
                                    {st.tier}).next)

IsActiveMatchesGateWitness ==
    /\ st.pc = "done" /\ st.http = 200
    /\ st.tier = "FREE" /\ st.status = "canceled" /\ st.isActive
    /\ \E u \in UserIds : users[u].tier = "PRO" /\ users[u].status = "past_due"

\* C22: a subscription-status request of an existing account, when the
\* database has answered, is answered 200 with the stored tier, status and
\* end date, also when the provider's subscription lookup has failed.
StatusSurvivesProvider ==
    (st.pc = "done" /\ st.error # "database")
        => (/\ st.http = 200 /\ st.error = Null
            /\ st.tier = users[st.userId].tier
            /\ st.status = users[st.userId].status
            /\ st.endDate = users[st.userId].endDate)

StatusSurvivesProviderWitness ==
    /\ st.pc = "done" /\ st.http = 200 /\ st.list = "failed"
    /\ st.tier = "PRO" /\ st.status = "active" /\ st.endDate = MaxTime

\* C23: a registration whose email already belongs to an account is answered
\* 409 and creates no account, whether the account is found by the lookup or
\* was created by a concurrent registration after the lookup; a successful
\* registration creates a row with tier FREE and status null; no two
\* accounts share an email.
DuplicateEmailConflict ==
    /\ [][\A p \in RegProcs :
            (/\ reg[p].pc \in {"idle", "done", "create"} /\ reg'[p] # reg[p]
             /\ reg'[p].pc = "done" /\ EmailTaken(reg'[p].email)
             /\ reg'[p].http # 400 \/ reg[p].pc = "create")
              => (reg'[p].http = 409 /\ users' = users)]_vars
    /\ [][\A p \in RegProcs :
            (reg'[p] # reg[p] /\ reg'[p].http = 201)
              => (/\ users'[reg'[p].id].tier = "FREE"
                  /\ users'[reg'[p].id].status = Null
                  /\ users[reg'[p].id] = NoUser)]_vars
    /\ [](\A u, v \in UserIds :
            (u # v /\ Exists(u) /\ Exists(v)) => users[u].email # users[v].email)

\* C24: no step of a login, profile, password, checkout, billing-portal or
\* subscription-status request changes the tier, the status or the end date
\* of an account; a step that changes them is the user update of a webhook
\* delivery, and it changes them for the user of its event only.
OnlyWebhookChangesSnapshot ==
    /\ [][(co' # co \/ portal' # portal \/ st' # st \/ acct' # acct)
            => \A u \in UserIds : Snapshot(users'[u]) = Snapshot(users[u])]_vars
    /\ [][\A u \in UserIds :
            Snapshot(users'[u]) # Snapshot(users[u])
              => (wh.pc = "update" /\ wh.ev.userId = u)]_vars

OnlyWebhookChangesSnapshotWitness ==
    /\ acct.pc = "done" /\ acct.op = "profile" /\ acct.http = 200
    /\ creds[acct.userId].name = "Ann"
    /\ users[acct.userId].tier = "PRO" /\ users[acct.userId].status = "past_due"
    /\ users[acct.userId].stripeCustomerId # NoCustomer
    /\ creds[acct.userId].passwordHash = hashPassword("password2")

\* C25: for one key and a tier that stays the same, at most limit(tier)
\* requests (FREE 10, PRO 100, ENTERPRISE 1000) reach the handler within one
\* one-hour window; a request is answered 429, without reaching the handler,
\* exactly when the key's window already holds limit(tier) requests that
\* reached it; a request that arrives after the window's reset time starts a
\* new window, of which it is the first request.
RateLimitPerWindow ==
    /\ [](/\ rl.passed["user:u1"] <= limits[users["u1"].tier]
          /\ rl.passed["ip:unknown"] <= limits["FREE"]
          /\ limits = [FREE |-> 10, PRO |-> 100, ENTERPRISE |-> 1000])
    /\ [][rateLimitStore' # rateLimitStore =>
            LET k == rl'.key
                limit == IF k = "user:u1" THEN limits[users["u1"].tier]
                         ELSE limits["FREE"]
                sameWindow == rl.opened[k] # 0 /\ clock.now <= rl.opened[k] + windowMs
                after == rateLimitStore[k] # NoRecord
                           /\ clock.now > rateLimitStore[k].resetAt
            IN  /\ rl'.http \in {200, 429}
                /\ rl'.http = 429 <=> (sameWindow /\ rl.passed[k] = limit)
                /\ rl'.http = 429 => rl'.passed = rl.passed
                /\ rateLimitStore[k] # NoRecord =>
                     (sameWindow <=> clock.now <= rateLimitStore[k].resetAt)
                /\ after => /\ rateLimitStore'[k] =
                                 [count |-> 1, resetAt |-> clock.now + windowMs]
                            /\ rl'.http = 200
                            /\ rl'.passed[k] = 1]_vars

RateLimitPerWindowWitness ==
    /\ rl.key = "user:u1" /\ rl.http = 429
    /\ users["u1"].tier = "ENTERPRISE"
    /\ rl.passed["user:u1"] = 1000
    /\ rl.opened["user:u1"] > windowMs
    /\ rl.passed["ip:unknown"] \in 1..9

\* C26: authMiddleware calls the handler only when the Authorization header
\* is present, has the form 'Bearer <token>', the token verifies and is not
\* expired, and the token's user id names an existing account; a request
\* with no header, another form or a token that does not verify is answered
\* 401 at once, and one whose user does not exist is answered 401 by the
\* user lookup (500 when the lookup itself fails); the handler is called in
\* none of these cases.
AuthMiddlewareGate ==
    /\ [](auth.next =>
            /\ auth.pc = "done" /\ auth.http = 200
            /\ Len(auth.header) = 2 /\ auth.header[1] = "Bearer"
            /\ auth.header[2] \in {"tU1", "tU2", "tOld"}
            /\ auth.user = jwtDecode(auth.header[2]).userId
            /\ Exists(auth.user))
    /\ [][(auth' # auth /\ auth.pc # "getUser") =>
            LET h == auth'.header
                present == h # NoHeader /\ h # <<"">>
                form == Len(h) = 2 /\ h[1] = "Bearer"
                verifies == /\ form
                            /\ h[2] \in {"tU1", "tU2", "tOld"}
                            /\ clock.now < jwtDecode(h[2]).exp
            IN  IF present /\ form /\ verifies
                THEN auth'.pc = "getUser" /\ auth'.http = 0 /\ ~auth'.next
                ELSE auth'.pc = "done" /\ auth'.http = 401 /\ ~auth'.next]_vars
    /\ [][(auth' # auth /\ auth.pc = "getUser") =>
            /\ auth'.pc = "done"
            /\ auth'.next => Exists(auth.userId)
            /\ ~Exists(auth.userId) =>
                 /\ ~auth'.next
                 /\ \/ auth'.http = 401
                    \/ auth'.http = 500 /\ auth'.message = "Authentication failed"]_vars

AuthMiddlewareGateWitness ==
    /\ auth.pc = "done" /\ auth.next /\ auth.user = "u2"
    /\ auth.header = <<"Bearer", "tU2">>
    /\ clock.now >= windowMs

\* C27: getCurrentWeather(city) returns the data of the cache entry of the
\* lower-cased city and leaves the cache as it is when that entry is less
\* than 60 minutes old; otherwise it returns new data, last updated now, and
\* replaces that entry, timestamp now, and no other. getWeatherForecast does
\* the same with the city's forecast entry, so that neither call writes the
\* other's entry, and clearWeatherCache removes every entry.
WeatherCacheContract ==
    /\ [][(weather'.op = "current"
             /\ (weather' # weather \/ weatherCache' # weatherCache)) =>
            LET k == "current_" \o toLowerCase(weather'.city)
                e == weatherCache[k]
            IN  IF e.timestamp # 0 /\ clock.now - e.timestamp < 60 * 60 * 1000
                THEN /\ weather'.result = e.data
                     /\ weatherCache' = weatherCache
                ELSE /\ weather'.result.city = weather'.city
                     /\ weather'.result.lastUpdated = clock.now
                     /\ weather'.result.forecast = NoForecast
                     /\ weatherCache' = [weatherCache EXCEPT ![k] =
                          [data |-> weather'.result, timestamp |-> clock.now]]]_vars
    /\ [][(weather'.op = "forecast"
             /\ (weather' # weather \/ weatherCache' # weatherCache)) =>
            /\ \A c \in Cities :
                 weatherCache'["current_" \o toLowerCase(c)]
                   = weatherCache["current_" \o toLowerCase(c)]
            /\ weather'.result.forecast # NoForecast]_vars
    /\ [][weather'.op = "clear" =>
            \A k \in CacheKeys : weatherCache'[k] = NoEntry]_vars
    /\ [](\A c \in Cities :
            /\ weatherCache["current_" \o toLowerCase(c)].data.forecast = NoForecast
            /\ weatherCache["forecast_" \o toLowerCase(c)] # NoEntry =>
                 weatherCache["forecast_" \o toLowerCase(c)].data.forecast
                   # NoForecast)

\* a call for "paris" is answered from the entry a call for "Paris" left one
\* millisecond less than an hour earlier, beside a younger forecast entry
WeatherCacheContractWitness ==
    /\ weather.op = "current" /\ weather.city = "paris"
    /\ weather.result.city = "Paris"
    /\ clock.now - weather.result.lastUpdated = CACHE_TTL - 1
    /\ weatherCache["current_paris"].timestamp = weather.result.lastUpdated
    /\ weatherCache["forecast_paris"].timestamp = clock.now

\* C28: handling checkout.session.completed is all-or-nothing: when the
\* delivery of a session's event has been answered, with success or with an
\* error, the handler has upgraded the account for that session if and only
\* if it has created the session's payment record.
CheckoutAllOrNothing ==
    (wh.pc = "done" /\ wh.ev.type = "checkout.session.completed")
        => (wh.writes = 1 <=> wh.paid = 1)

\* C29: across the interleavings of the checkout requests of one account,
\* the provider creates at most one customer for the account, and once no
\* checkout request of the account is under way, the session of every
\* request answered with success uses the customer id stored on the account.
OneCustomerPerAccount ==
    /\ \A u \in UserIds :
         Cardinality({i \in 1..Len(customers) : customers[i] = u}) <= 1
    /\ \A p \in CheckoutProcs :
         (/\ co[p].pc = "done" /\ co[p].http = 200
          /\ \A q \in CheckoutProcs :
               co[q].userId = co[p].userId => co[q].pc = "done")
            => co[p].session.customer = users[co[p].userId].stripeCustomerId

\* C30: in the AuthProvider, whenever user is non-null the token state is
\* non-null and localStorage holds the same auth_token; and when the
\* mount-time /auth/me completes after a login or a registration has set the
\* user, it leaves the token state and the stored auth_token as they are.
AuthStateConsistent ==
    /\ [](fe.user # Null => (fe.token # Null /\ fe.storage = fe.token))
    /\ [][(calls.load = "me" /\ calls'.load = "done" /\ fe.user # Null)
            => (fe'.token = fe.token /\ fe'.storage = fe.storage)]_vars

====
